---- MODULE Spec2Model ----
(***************************************************************************)
(* Model of apps/restaurant-management-system/src-tauri/src/print.rs:      *)
(* printer discovery (get_printers) and silent printing (print_html) on    *)
(* the Unix (lp / lpstat) and Windows (PowerShell) pipelines.              *)
(*                                                                         *)
(* Encodings.  Option<T>: None is <<>>, Some(x) is <<x>>.  A byte buffer   *)
(* or a String is a sequence of symbols; argv entries, messages and file   *)
(* paths are TLA+ strings.  Symbols of process output:                     *)
(*   "M"  one occurrence of the marker text "request id is "               *)
(*   "P"  the seven characters "printer"                                   *)
(*   "X"  a byte that is not valid UTF-8, "?" the replacement character    *)
(*   " "  a blank, "\n" a line feed, ":" a colon, other symbols letters    *)
(***************************************************************************)
EXTENDS Integers, Sequences, FiniteSets, TLC

VARIABLES
    platform,   \* "unix" | "windows": the cfg(target_os) the crate was built for
    fs,         \* temp directory: path id -> None | Some([owner, content])
    pc,         \* per print_html call: position in the handler
    html,       \* per call: the html argument
    opts,       \* per call: options after unwrap_or (print.rs:81)
    tmp,        \* per call: the NamedTempFile it holds, None when it holds none
    cmd,        \* per call: the command built for the subprocess
    seen,       \* per call: what the subprocess read at the path it was given
    out,        \* per call: the subprocess's Output (status, stdout, stderr)
    result,     \* per call: the returned Result<PrintResult, String>
    trace,      \* per call: file and process events of the call, in order
    epc,        \* get_printers: position in the handler
    defOut,     \* get_printers: Output of `lpstat -d`
    listOut,    \* get_printers: Output of the listing command
    eres        \* get_printers: the returned Result<Vec<PrinterInfo>, String>

printVars == <<fs, pc, html, opts, tmp, cmd, seen, out, result, trace>>
enumVars == <<epc, defOut, listOut, eres>>
vars == <<platform, fs, pc, html, opts, tmp, cmd, seen, out, result, trace,
          epc, defOut, listOut, eres>>

(***************************************************************************)
(* Bounds                                                                  *)
(***************************************************************************)
NumCalls == 2     \* print_html calls in flight at once
MaxPaths == 3     \* names the temp directory can hold
MaxCopies == 3    \* largest options.copies tried
MaxOut == 2       \* longest stdout of the print subprocess, in symbols
MaxErr == 1       \* longest stderr of the print subprocess, in symbols
MaxDefLen == 3    \* longest `lpstat -d` output, in symbols
MaxLineLen == 3   \* longest line of `lpstat -p` output, in symbols
MaxLines == 2     \* most lines of `lpstat -p` output

Calls == 1..NumCalls
Paths == 1..MaxPaths

(***************************************************************************)
(* Option, Result and bounded sequences                                    *)
(***************************************************************************)
None == <<>>
Some(x) == <<x>>
UnwrapOr(o, d) == IF o = None THEN d ELSE o[1]
Ok(v) == [tag |-> "Ok", val |-> v]
Err(m) == [tag |-> "Err", msg |-> m]
BSeq(S, n) == UNION {[1..k -> S] : k \in 0..n}

(***************************************************************************)
(* print_html: options                                                     *)
(***************************************************************************)
DefaultOptions ==
    [printer |-> None, copies |-> Some(1), silent |-> Some(TRUE),
     paper_width |-> Some(80)]

PrintOptions ==
    [printer : {None, Some("P1"), Some("-o")},
     copies : {None} \cup {Some(n) : n \in 0..MaxCopies},
     silent : {Some(TRUE)},
     paper_width : {None, Some(58), Some(80), Some(100)}]

\* Option<PrintOptions> as the caller may pass it
OptionInputs == {None} \cup {Some(o) : o \in PrintOptions}

(***************************************************************************)
(* Temp file: NamedTempFile                                                *)
(***************************************************************************)
\* the file name of path id p, as temp_file.path().to_string_lossy() gives it
PathString(pf, p) ==
    IF pf = "unix" THEN "/tmp/.tmp" \o ToString(p)
    ELSE "C:\\Temp\\.tmp" \o ToString(p) \o ".html"

\* file_path.replace("\\", "\\\\"): every separator of the path doubled
EscapedPath(p) == "C:\\\\Temp\\\\.tmp" \o ToString(p) \o ".html"

\* faulty variant: a name is taken whether or not a file of that name exists
FreshPathsShared(f) == Paths
\* names NamedTempFile::new may take: it opens with create_new, so never a
\* name that exists
FreshPaths(f) == {p \in Paths : f[p] = None}

\* faulty variant: the file outlives its handle
DropTempLeak(f, p) == f
\* Drop for NamedTempFile: the file is removed
DropTemp(f, p) == [f EXCEPT ![p] = None]

\* faulty variant: a single short write, the tail of the buffer is lost
WriteAllTruncated(content) == SubSeq(content, 1, Len(content) - 1)
\* write_all: the whole buffer, in order
WriteAll(content) == content

\* the styled document print_html_windows wraps the payload in
StyledHtml(h, o) ==
    LET paper_width == UnwrapOr(o.paper_width, 80) IN
    << "<!DOCTYPE html><html><head><style>@page { size: ",
       ToString(paper_width), "mm auto; margin: 0; } @media print { body { width: ",
       ToString(paper_width), "mm; margin: 0; padding: 2mm; } }</style></head><body>",
       h, "</body></html>" >>

\* what the call writes to its temp file
Payload(pf, h, o) == IF pf = "unix" THEN <<h>> ELSE StyledHtml(h, o)

(***************************************************************************)
(* Platform Command Builder                                                *)
(***************************************************************************)
PrinterArgs(o) ==
    IF o.printer # None THEN <<"-d", o.printer[1]>> ELSE <<>>

CopiesArgs(o) ==
    LET copies == UnwrapOr(o.copies, 1) IN
    IF copies > 1 THEN <<"-n", ToString(copies)>> ELSE <<>>

\* faulty variant: every width but 80 gets the 58mm directive
MediaArgsSwapped(o) ==
    LET paper_width == UnwrapOr(o.paper_width, 80) IN
    IF paper_width = 80 THEN <<"-o", "media=Custom.80x200mm">>
    ELSE <<"-o", "media=Custom.58x200mm">>
\* print.rs:186-195
MediaArgs(o) ==
    LET paper_width == UnwrapOr(o.paper_width, 80) IN
    IF paper_width = 80 THEN <<"-o", "media=Custom.80x200mm">>
    ELSE IF paper_width = 58 THEN <<"-o", "media=Custom.58x200mm">>
    ELSE <<>>

\* the argument vector of lp
LpArgs(o, path) ==
    PrinterArgs(o) \o CopiesArgs(o) \o MediaArgs(o)
        \o <<"-o", "fit-to-page">> \o <<path>>

\* the PowerShell script of print_html_windows: the automation sequence with
\* its ExecWB loop bound, or the Print verb
PrintScript(o, p) ==
    LET copies == UnwrapOr(o.copies, 1) IN
    IF o.printer # None
    THEN [kind |-> "ie_automation", file |-> EscapedPath(p), loop_bound |-> copies]
    ELSE [kind |-> "print_verb", file |-> EscapedPath(p), loop_bound |-> 1]

NoScript == [kind |-> "none", file |-> "", loop_bound |-> 0]
NoCommand == [program |-> "", args |-> <<>>, script |-> NoScript]

BuildCommand(pf, o, p) ==
    IF pf = "unix"
    THEN [program |-> "lp", args |-> LpArgs(o, PathString(pf, p)), script |-> NoScript]
    ELSE [program |-> "powershell", args |-> <<"-Command">>, script |-> PrintScript(o, p)]

\* the file the built command names
CommandFile(pf, c) ==
    IF pf = "unix"
    THEN CHOOSE p \in Paths : PathString(pf, p) = c.args[Len(c.args)]
    ELSE CHOOSE p \in Paths : EscapedPath(p) = c.script.file

(***************************************************************************)
(* Process Executor and Response Parser: submission outcome                *)
(***************************************************************************)
\* String::from_utf8_lossy: invalid bytes become the replacement character
Lossy(bytes) == [i \in DOMAIN bytes |-> IF bytes[i] = "X" THEN "?" ELSE bytes[i]]

\* s.split_whitespace().next()
FirstToken(s) ==
    LET starts == {i \in 1..Len(s) : s[i] # " " /\ s[i] # "\n"} IN
    IF starts = {} THEN None
    ELSE LET a == CHOOSE i \in starts : \A j \in starts : i <= j
             stops == {i \in a..Len(s) : s[i] = " " \/ s[i] = "\n"}
             b == IF stops = {} THEN Len(s) + 1
                  ELSE CHOOSE i \in stops : \A j \in stops : i <= j
         IN Some(SubSeq(s, a, b - 1))

\* stdout.split("request id is ").nth(1): the text between the first marker
\* and the next one (or the end)
AfterMarker(s) ==
    LET marks == {i \in 1..Len(s) : s[i] = "M"} IN
    IF marks = {} THEN None
    ELSE LET a == CHOOSE i \in marks : \A j \in marks : i <= j
             later == {i \in marks : i > a}
             b == IF later = {} THEN Len(s) + 1
                  ELSE CHOOSE i \in later : \A j \in later : i <= j
         IN Some(SubSeq(s, a + 1, b - 1))

JobId(stdout) ==
    LET rest == AfterMarker(Lossy(stdout)) IN
    IF rest = None THEN None ELSE FirstToken(rest[1])

\* faulty variant: the job id is parsed before the exit status is looked at
PrintOutcomeUnixJobOnFailure(o) ==
    IF o.status = 0
    THEN Ok([success |-> TRUE, error |-> None, job_id |-> JobId(o.stdout)])
    ELSE Ok([success |-> FALSE, error |-> Some(Lossy(o.stderr)),
             job_id |-> JobId(o.stdout)])
\* print.rs:211-232
PrintOutcomeUnix(o) ==
    IF o.status = 0
    THEN Ok([success |-> TRUE, error |-> None, job_id |-> JobId(o.stdout)])
    ELSE Ok([success |-> FALSE, error |-> Some(Lossy(o.stderr)), job_id |-> None])

\* faulty variant: a nonzero exit of PowerShell becomes a hard error
PrintOutcomeWindowsErrOnFailure(o) ==
    IF o.status = 0
    THEN Ok([success |-> TRUE, error |-> None, job_id |-> None])
    ELSE Err("Print command failed")
\* print.rs:373-390
PrintOutcomeWindows(o) ==
    IF o.status = 0
    THEN Ok([success |-> TRUE, error |-> None, job_id |-> None])
    ELSE LET stderr == Lossy(o.stderr) IN
         Ok([success |-> FALSE,
             error |-> Some(IF stderr = <<>> THEN <<"Print command failed">>
                            ELSE stderr),
             job_id |-> None])

PrintOutcome(pf, o) ==
    IF pf = "unix" THEN PrintOutcomeUnix(o) ELSE PrintOutcomeWindows(o)

\* symbols a print subprocess writes to stdout and to stderr
StdoutSymbols == {" ", "M", "j"}
StderrSymbols == {"X", "e"}

\* what a print subprocess may leave behind
PrintOutputs ==
    [status : {0, 1}, stdout : BSeq(StdoutSymbols, MaxOut),
     stderr : BSeq(StderrSymbols, MaxErr)]

(***************************************************************************)
(* print_html, one step at a time                                          *)
(***************************************************************************)
\* the caller invokes print_html(h, o)
Invoke(c, Htmls, Options) ==
    /\ pc[c] = "idle"
    /\ \E h \in Htmls, o \in Options :
          /\ html' = [html EXCEPT ![c] = h]
          /\ opts' = [opts EXCEPT ![c] = UnwrapOr(o, DefaultOptions)]
    /\ pc' = [pc EXCEPT ![c] = "create"]
    /\ UNCHANGED <<platform, fs, tmp, cmd, seen, out, result, trace, enumVars>>

\* NamedTempFile::new() / with_suffix(".html")
CreateTemp(c) ==
    /\ pc[c] = "create"
    /\ \/ /\ result' = [result EXCEPT ![c] = Some(Err("Failed to create temp file"))]
          /\ pc' = [pc EXCEPT ![c] = "done"]
          /\ UNCHANGED <<fs, tmp, trace>>
       \/ \E p \in FreshPaths(fs) :
             /\ fs' = [fs EXCEPT ![p] = Some([owner |-> c, content |-> <<>>])]
             /\ tmp' = [tmp EXCEPT ![c] = Some(p)]
             /\ trace' = [trace EXCEPT ![c] = Append(@, "create")]
             /\ pc' = [pc EXCEPT ![c] = "write"]
             /\ UNCHANGED result
    /\ UNCHANGED <<platform, html, opts, cmd, seen, out, enumVars>>

\* temp_file.write_all(..), then the command is built
WriteTemp(c) ==
    /\ pc[c] = "write"
    /\ LET p == tmp[c][1] IN
       \/ /\ result' = [result EXCEPT ![c] =
                           Some(Err("Failed to write HTML to temp file"))]
          /\ fs' = DropTemp(fs, p)
          /\ tmp' = [tmp EXCEPT ![c] = None]
          /\ trace' = [trace EXCEPT ![c] = Append(@, "delete")]
          /\ pc' = [pc EXCEPT ![c] = "done"]
          /\ UNCHANGED cmd
       \/ /\ fs' = [fs EXCEPT ![p] =
                       Some([owner |-> c,
                             content |-> WriteAll(Payload(platform, html[c], opts[c]))])]
          /\ cmd' = [cmd EXCEPT ![c] = BuildCommand(platform, opts[c], p)]
          /\ trace' = [trace EXCEPT ![c] = Append(@, "write")]
          /\ pc' = [pc EXCEPT ![c] = "spawn"]
          /\ UNCHANGED <<tmp, result>>
    /\ UNCHANGED <<platform, html, opts, seen, out, enumVars>>

\* Command::new(..).output(): the process is spawned, or it cannot be
SpawnProcess(c) ==
    /\ pc[c] = "spawn"
    /\ LET p == tmp[c][1] IN
       \/ /\ result' = [result EXCEPT ![c] =
                IF platform = "unix" THEN Some(Err("Failed to execute lp command"))
                ELSE Some(Err("Failed to execute print command"))]
          /\ fs' = DropTemp(fs, p)
          /\ tmp' = [tmp EXCEPT ![c] = None]
          /\ trace' = [trace EXCEPT ![c] = Append(@, "delete")]
          /\ pc' = [pc EXCEPT ![c] = "done"]
       \/ /\ trace' = [trace EXCEPT ![c] = Append(@, "spawn")]
          /\ pc' = [pc EXCEPT ![c] = "running"]
          /\ UNCHANGED <<fs, tmp, result>>
    /\ UNCHANGED <<platform, html, opts, cmd, seen, out, enumVars>>

\* the subprocess opens the file its command names and reads it
ProcessRead(c) ==
    /\ pc[c] = "running"
    /\ seen[c] = None
    /\ seen' = [seen EXCEPT ![c] = Some(fs[CommandFile(platform, cmd[c])])]
    /\ UNCHANGED <<platform, fs, pc, html, opts, tmp, cmd, out, result, trace,
                   enumVars>>

\* the subprocess exits; output() returns, the result is built and the temp
\* file goes out of scope
ProcessExit(c, Outs) ==
    /\ pc[c] = "running"
    /\ \E o \in Outs :
          /\ out' = [out EXCEPT ![c] = Some(o)]
          /\ result' = [result EXCEPT ![c] = Some(PrintOutcome(platform, o))]
    /\ fs' = DropTemp(fs, tmp[c][1])
    /\ tmp' = [tmp EXCEPT ![c] = None]
    /\ trace' = [trace EXCEPT ![c] = @ \o <<"exit", "delete">>]
    /\ pc' = [pc EXCEPT ![c] = "done"]
    /\ UNCHANGED <<platform, html, opts, cmd, seen, enumVars>>

\* the Result reaches the caller; the call and its locals are gone
Deliver(c) ==
    /\ pc[c] = "done"
    /\ pc' = [pc EXCEPT ![c] = "idle"]
    /\ html' = [html EXCEPT ![c] = ""]
    /\ opts' = [opts EXCEPT ![c] = DefaultOptions]
    /\ cmd' = [cmd EXCEPT ![c] = NoCommand]
    /\ seen' = [seen EXCEPT ![c] = None]
    /\ out' = [out EXCEPT ![c] = None]
    /\ result' = [result EXCEPT ![c] = None]
    /\ trace' = [trace EXCEPT ![c] = <<>>]
    /\ UNCHANGED <<platform, fs, tmp, enumVars>>

InitPrint ==
    /\ platform \in {"unix", "windows"}
    /\ fs = [p \in Paths |-> None]
    /\ pc = [c \in Calls |-> "idle"]
    /\ html = [c \in Calls |-> ""]
    /\ opts = [c \in Calls |-> DefaultOptions]
    /\ tmp = [c \in Calls |-> None]
    /\ cmd = [c \in Calls |-> NoCommand]
    /\ seen = [c \in Calls |-> None]
    /\ out = [c \in Calls |-> None]
    /\ result = [c \in Calls |-> None]
    /\ trace = [c \in Calls |-> <<>>]

InitEnum ==
    /\ epc = "idle"
    /\ defOut = None
    /\ listOut = None
    /\ eres = None

Init == InitPrint /\ InitEnum

\* One print_html call at a time, every option and every subprocess output
Htmls == {"<p>a</p>", "<p>b</p>"}

Next ==
    \/ Invoke(1, Htmls, OptionInputs)
    \/ CreateTemp(1)
    \/ WriteTemp(1)
    \/ SpawnProcess(1)
    \/ ProcessRead(1)
    \/ ProcessExit(1, PrintOutputs)
    \/ Deliver(1)

Spec == Init /\ [][Next]_vars

\* Concurrent print_html calls
ConcOptions == {None}
ConcOutputs == [status : {0, 1}, stdout : {<<>>}, stderr : {<<>>}]

NextConc ==
    \E c \in Calls :
        \/ Invoke(c, Htmls, ConcOptions)
        \/ CreateTemp(c)
        \/ WriteTemp(c)
        \/ SpawnProcess(c)
        \/ ProcessRead(c)
        \/ ProcessExit(c, ConcOutputs)
        \/ Deliver(c)

SpecConc == Init /\ [][NextConc]_vars

(***************************************************************************)
(* get_printers: Response Parser, line-oriented grammar (Unix)             *)
(***************************************************************************)
IsSpace(ch) == ch = " " \/ ch = "\n"

\* str::trim
RECURSIVE TrimStart(_)
TrimStart(s) ==
    IF s # <<>> /\ IsSpace(s[1]) THEN TrimStart(Tail(s)) ELSE s
RECURSIVE TrimEnd(_)
TrimEnd(s) ==
    IF s # <<>> /\ IsSpace(s[Len(s)]) THEN TrimEnd(SubSeq(s, 1, Len(s) - 1)) ELSE s
Trim(s) == TrimEnd(TrimStart(s))

\* s.split(sep): the pieces between the occurrences of sep, at least one
RECURSIVE Split(_, _)
Split(s, sep) ==
    LET at == {i \in 1..Len(s) : s[i] = sep} IN
    IF at = {} THEN <<s>>
    ELSE LET i == CHOOSE k \in at : \A j \in at : k <= j IN
         <<SubSeq(s, 1, i - 1)>> \o Split(SubSeq(s, i + 1, Len(s)), sep)

\* str::lines: split at line feeds, no empty last line
Lines(s) ==
    LET pieces == Split(s, "\n") IN
    IF pieces[Len(pieces)] = <<>> THEN SubSeq(pieces, 1, Len(pieces) - 1)
    ELSE pieces

\* str::split_whitespace: the maximal runs of non-blank symbols
RECURSIVE SplitWhitespace(_)
SplitWhitespace(s) ==
    LET t == TrimStart(s) IN
    IF t = <<>> THEN <<>>
    ELSE LET first == FirstToken(t)[1] IN
         <<first>> \o SplitWhitespace(SubSeq(t, Len(first) + 1, Len(t)))

\* print.rs:111-115: split(':').nth(1), trimmed; "" when there is no colon
DefaultPrinter(stdout) ==
    LET pieces == Split(Lossy(stdout), ":") IN
    IF Len(pieces) >= 2 THEN Trim(pieces[2]) ELSE <<>>

\* line.starts_with("printer ")
StartsWithMarker(line) == Len(line) >= 2 /\ line[1] = "P" /\ line[2] = " "

\* line.contains("idle") / line.contains("printing"): "i" is the text "idle",
\* "g" the text "printing"
LineStatus(line) ==
    IF \E k \in 1..Len(line) : line[k] = "i" THEN Some("idle")
    ELSE IF \E k \in 1..Len(line) : line[k] = "g" THEN Some("printing")
    ELSE None

\* print.rs:126-149: the loop over stdout.lines()
RECURSIVE ParseLines(_, _)
ParseLines(lines, default_printer) ==
    IF lines = <<>> THEN <<>>
    ELSE LET line == lines[1]
             parts == SplitWhitespace(line)
             here == IF StartsWithMarker(line) /\ Len(parts) >= 2
                     THEN << [name |-> parts[2],
                              is_default |-> (parts[2] = default_printer),
                              description |-> None,
                              status |-> LineStatus(line)] >>
                     ELSE <<>>
         IN here \o ParseLines(Tail(lines), default_printer)

\* faulty variant: a nonzero exit of `lpstat -p` becomes a hard error
GetPrintersUnixFailOnStatus(d, l) ==
    IF l.status # 0 THEN Err("lpstat failed")
    ELSE Ok(ParseLines(Lines(Lossy(l.stdout)), DefaultPrinter(d.stdout)))
\* get_printers_unix once both lpstat runs returned their Output
GetPrintersUnix(d, l) ==
    Ok(ParseLines(Lines(Lossy(l.stdout)), DefaultPrinter(d.stdout)))

(***************************************************************************)
(* get_printers: Response Parser, structured grammar (Windows)             *)
(*                                                                         *)
(* PowerShell's stdout is kept by its JSON shape: "blank" (nothing but     *)
(* white space), "array" of objects, one "object", or "invalid" text; an   *)
(* object holds the fields of WinPrinter, None for a field that is absent. *)
(***************************************************************************)
\* serde_json::from_str::<Vec<WinPrinter>>: every element needs its Name
ParseArray(j) ==
    IF j.shape = "array" /\ \A k \in 1..Len(j.items) : j.items[k].Name # None
    THEN Some(j.items) ELSE None

\* serde_json::from_str::<WinPrinter>, wrapped into a one-element list
ParseObject(j) ==
    IF j.shape = "object" /\ j.items[1].Name # None THEN Some(j.items) ELSE None

ToPrinterInfo(w) ==
    [name |-> w.Name[1], is_default |-> UnwrapOr(w.Default, FALSE),
     description |-> w.DriverName, status |-> None]

\* print.rs:250-290
GetPrintersWindows(o) ==
    IF o.status # 0 THEN Err("PowerShell command failed")
    ELSE IF o.stdout.shape = "blank" THEN Ok(<<>>)
    ELSE LET parsed == IF ParseArray(o.stdout) # None THEN ParseArray(o.stdout)
                       ELSE ParseObject(o.stdout)
         IN IF parsed = None THEN Err("Failed to parse printer list")
            ELSE Ok([k \in 1..Len(parsed[1]) |-> ToPrinterInfo(parsed[1][k])])

(***************************************************************************)
(* get_printers, one step at a time                                        *)
(***************************************************************************)
GetPrinters ==
    /\ epc = "idle"
    /\ epc' = IF platform = "unix" THEN "lpstat_d" ELSE "powershell"
    /\ UNCHANGED <<platform, printVars, defOut, listOut, eres>>

\* Command::new("lpstat").args(["-d"]).output()
QueryDefault(DefOuts) ==
    /\ epc = "lpstat_d"
    /\ \/ /\ eres' = Some(Err("Failed to get default printer"))
          /\ epc' = "done"
          /\ UNCHANGED defOut
       \/ \E o \in DefOuts :
             /\ defOut' = Some(o)
             /\ epc' = "lpstat_p"
             /\ UNCHANGED eres
    /\ UNCHANGED <<platform, printVars, listOut>>

\* Command::new("lpstat").args(["-p"]).output() and the parse of its output
QueryPrinters(ListOuts) ==
    /\ epc = "lpstat_p"
    /\ \/ /\ eres' = Some(Err("Failed to list printers"))
          /\ UNCHANGED listOut
       \/ \E o \in ListOuts :
             /\ listOut' = Some(o)
             /\ eres' = Some(GetPrintersUnix(defOut[1], o))
    /\ epc' = "done"
    /\ UNCHANGED <<platform, printVars, defOut>>

\* Command::new("powershell") .. Get-Printer .. and the parse of its output
QueryPrintersWindows(WinOuts) ==
    /\ epc = "powershell"
    /\ \/ /\ eres' = Some(Err("Failed to get printers"))
          /\ UNCHANGED listOut
       \/ \E o \in WinOuts :
             /\ listOut' = Some(o)
             /\ eres' = Some(GetPrintersWindows(o))
    /\ epc' = "done"
    /\ UNCHANGED <<platform, printVars, defOut>>

\* the Result reaches the caller
DeliverPrinters ==
    /\ epc = "done"
    /\ epc' = "idle"
    /\ defOut' = None
    /\ listOut' = None
    /\ eres' = None
    /\ UNCHANGED <<platform, printVars>>

\* texts of `lpstat -p`: lines joined by line feeds
RECURSIVE JoinLines(_)
JoinLines(ls) ==
    IF ls = <<>> THEN <<>>
    ELSE IF Len(ls) = 1 THEN ls[1]
    ELSE ls[1] \o <<"\n">> \o JoinLines(Tail(ls))

\* get_printers on both pipelines, a few outputs of each kind
EnumDefOuts ==
    [status : {0, 1}, stdout : {<<>>, <<"a">>, <<":", " ", "a", "\n">>}]
EnumListOuts ==
    [status : {0, 1},
     stdout : {<<>>, <<"a", " ", "b", "\n">>, <<"P", " ", "a", " ", "i", "\n">>,
               <<"P", " ", "a", "\n", "P", " ", "b", " ", "g", "\n">>}]
WinItems ==
    {[Name |-> Some("a"), DriverName |-> Some("drv"), Default |-> Some(TRUE)],
     [Name |-> Some("b"), DriverName |-> None, Default |-> None],
     [Name |-> None, DriverName |-> Some("drv"), Default |-> Some(FALSE)]}
WinStdouts ==
    {[shape |-> "blank", items |-> <<>>], [shape |-> "invalid", items |-> <<>>]}
        \cup {[shape |-> "array", items |-> it] : it \in BSeq(WinItems, 2)}
        \cup {[shape |-> "object", items |-> <<w>>] : w \in WinItems}
EnumWinOuts == [status : {0, 1}, stdout : WinStdouts, stderr : {<<>>, <<"e">>}]

NextEnum ==
    \/ GetPrinters
    \/ QueryDefault(EnumDefOuts)
    \/ QueryPrinters(EnumListOuts)
    \/ QueryPrintersWindows(EnumWinOuts)
    \/ DeliverPrinters

SpecEnum == Init /\ [][NextEnum]_vars

\* get_printers on Unix, every short output of the two lpstat runs
ParseDefOuts == [status : {0}, stdout : BSeq({":", "a", " "}, MaxDefLen)]
ParseListOuts ==
    [status : {0},
     stdout : {JoinLines(ls) : ls \in BSeq(BSeq({"P", " ", "a", "i"}, MaxLineLen),
                                            MaxLines)}]

InitParse == Init /\ platform = "unix"

NextParse ==
    \/ GetPrinters
    \/ QueryDefault(ParseDefOuts)
    \/ QueryPrinters(ParseListOuts)
    \/ DeliverPrinters

SpecParse == InitParse /\ [][NextParse]_vars

(***************************************************************************)
(* Properties                                                              *)
(***************************************************************************)
Range(s) == {s[k] : k \in 1..Len(s)}
Count(s, e) == Cardinality({k \in 1..Len(s) : s[k] = e})
Returned(c) == pc[c] = "done"
Exited(c) == pc[c] = "done" /\ out[c] # None
CommandBuilt(c) == pc[c] \in {"spawn", "running"}

\* C1: a print subprocess that exits nonzero gives success=false with an
\* error that is present and not the empty string, also when it wrote
\* nothing to standard error; one that exits zero gives success=true with
\* error=None; on both pipelines.
C1_ExitStatusDecidesOutcome ==
    \A c \in Calls :
        Exited(c) =>
            LET r == result[c][1] IN
            /\ r.tag = "Ok"
            /\ IF out[c][1].status # 0
               THEN /\ r.val.success = FALSE
                    /\ r.val.error # None
                    /\ r.val.error[1] # <<>>
               ELSE /\ r.val.success = TRUE
                    /\ r.val.error = None

\* C2: print_html returns Err only when the temp file cannot be created, the
\* payload cannot be written or the process cannot be spawned; once the
\* process was spawned and ran, whatever its exit status and output, the
\* call returns Ok with a PrintResult.
C2_ErrOnlyForInfrastructure ==
    \A c \in Calls :
        Returned(c) =>
            LET r == result[c][1] IN
            /\ r.tag = "Err" =>
                  /\ out[c] = None
                  /\ \/ /\ trace[c] = <<>>
                        /\ r.msg = "Failed to create temp file"
                     \/ /\ trace[c] = <<"create", "delete">>
                        /\ r.msg = "Failed to write HTML to temp file"
                     \/ /\ trace[c] = <<"create", "write", "delete">>
                        /\ r.msg \in {"Failed to execute lp command",
                                      "Failed to execute print command"}
            /\ "spawn" \in Range(trace[c]) =>
                  /\ out[c] # None
                  /\ r.tag = "Ok"
                  /\ r.val.success = (out[c][1].status = 0)

\* C2 witness: a call whose process ran and exited nonzero has returned Ok
\* with success=false.
C2_Witness ==
    \E c \in Calls :
        /\ Exited(c)
        /\ out[c][1].status # 0
        /\ result[c][1].tag = "Ok"
        /\ result[c][1].val.success = FALSE

FilesOf(c) == {p \in Paths : fs[p] # None /\ fs[p][1].owner = c}

\* C3 as stated: every returned call has created exactly one temp file and
\* that file is gone, on every return path, creation failure included.
C3_ExactlyOneTempFile ==
    \A c \in Calls :
        Returned(c) =>
            /\ Count(trace[c], "create") = 1
            /\ Count(trace[c], "delete") = 1
            /\ FilesOf(c) = {}

\* C3 amended: a call creates at most one temp file, none exactly when the
\* creation itself failed, and deletes what it created before it returns on
\* every path; whenever no call is in flight the temp directory is empty.
C3_TempFileRemoved ==
    /\ \A c \in Calls :
          /\ Count(trace[c], "create") <= 1
          /\ Returned(c) =>
                /\ Count(trace[c], "delete") = Count(trace[c], "create")
                /\ (Count(trace[c], "create") = 0)
                      <=> (result[c][1] = Err("Failed to create temp file"))
                /\ FilesOf(c) = {}
                /\ tmp[c] = None
          /\ pc[c] = "idle" => FilesOf(c) = {}
    /\ (\A c \in Calls : pc[c] \in {"idle", "done"}) => \A p \in Paths : fs[p] = None

\* C3 witness: a call went through create, write, spawn and exit, has
\* returned, and no temp file exists.
C3_Witness ==
    \E c \in Calls :
        /\ Returned(c)
        /\ trace[c] = <<"create", "write", "spawn", "exit", "delete">>
        /\ \A p \in Paths : fs[p] = None

\* the variables of call c
CallState(c) ==
    <<pc[c], html[c], opts[c], tmp[c], cmd[c], seen[c], out[c], result[c], trace[c]>>

C4_Isolated ==
    /\ \A c, d \in Calls :
          (c # d /\ tmp[c] # None /\ tmp[d] # None) => tmp[c][1] # tmp[d][1]
    /\ \A c \in Calls :
          /\ tmp[c] # None =>
                /\ fs[tmp[c][1]] # None
                /\ fs[tmp[c][1]][1].owner = c
                /\ fs[tmp[c][1]][1].content
                      \in {<<>>, Payload(platform, html[c], opts[c])}
          /\ CommandBuilt(c) => CommandFile(platform, cmd[c]) = tmp[c][1]
          /\ seen[c] # None =>
                seen[c][1] = Some([owner |-> c,
                                   content |-> Payload(platform, html[c], opts[c])])
          /\ Exited(c) => result[c][1] = PrintOutcome(platform, out[c][1])

C4_OwnStep ==
    \A c \in Calls :
        CallState(c)' # CallState(c) =>
            /\ \A d \in Calls \ {c} : CallState(d)' = CallState(d)
            /\ \A p \in Paths :
                  fs'[p] # fs[p] =>
                      /\ fs[p] # None => fs[p][1].owner = c
                      /\ fs'[p] # None => fs'[p][1].owner = c

\* C4: concurrent print_html calls in any interleaving each have their own
\* temp file and subprocess: no call writes to, hands to its subprocess or
\* deletes the temp file of another call, a step of one call changes nothing
\* of another call, and each result is that of the call's own subprocess.
C4_CallsIsolated == [] C4_Isolated /\ [][C4_OwnStep]_vars

\* C4 witness: two calls with different payloads both have their subprocess
\* running, and both subprocesses have read their file.
C4_Witness ==
    \E c, d \in Calls :
        /\ c # d
        /\ pc[c] = "running" /\ pc[d] = "running"
        /\ html[c] # html[d]
        /\ seen[c] # None /\ seen[d] # None

\* a line of `lpstat -p` output that is a printer record
IsPrinterLine(line) == StartsWithMarker(line) /\ Len(SplitWhitespace(line)) >= 2

\* the OS reported no printer
ZeroPrinters ==
    /\ listOut # None
    /\ IF platform = "unix"
       THEN \A line \in Range(Lines(Lossy(listOut[1].stdout))) : ~IsPrinterLine(line)
       ELSE \/ listOut[1].stdout.shape = "blank"
            \/ listOut[1].stdout.shape = "array" /\ listOut[1].stdout.items = <<>>

\* the enumeration output is not of the expected shape
Unparseable ==
    /\ listOut # None
    /\ platform = "windows"
    /\ listOut[1].stdout.shape # "blank"
    /\ ParseArray(listOut[1].stdout) = None
    /\ ParseObject(listOut[1].stdout) = None

\* C5 as stated: get_printers returns Ok([]) when the OS reports no printer,
\* and an error only if a command cannot be spawned or its output cannot be
\* parsed; a nonzero exit alone never makes it fail, on either pipeline.
C5_NonzeroExitNeverFails ==
    epc = "done" =>
        /\ eres[1].tag = "Err" => (listOut = None \/ Unparseable)
        /\ ZeroPrinters => eres[1] = Ok(<<>>)

\* C5 amended: get_printers returns an error only if a command cannot be
\* spawned, its output cannot be parsed, or - on the Windows pipeline - the
\* enumeration command exited nonzero; it returns Ok([]) when the OS reports
\* no printer and, on Windows, the command exited zero; on the Unix pipeline
\* a nonzero exit of either lpstat run never makes it fail.
C5_ErrorOnlyForSpawnParseOrWindowsExit ==
    epc = "done" =>
        /\ eres[1].tag = "Err" =>
              \/ listOut = None
              \/ Unparseable
              \/ platform = "windows" /\ listOut[1].status # 0
        /\ (ZeroPrinters /\ (platform = "unix" \/ listOut[1].status = 0))
              => eres[1] = Ok(<<>>)
        /\ (platform = "unix" /\ listOut # None) => eres[1].tag = "Ok"
        /\ (platform = "windows" /\ listOut # None /\ listOut[1].status # 0)
              => eres[1] = Err("PowerShell command failed")

\* C5 witness: on Unix both lpstat runs exited nonzero, the listing held no
\* printer record, and get_printers has returned Ok([]).
C5_Witness ==
    /\ epc = "done"
    /\ platform = "unix"
    /\ listOut # None
    /\ listOut[1].status # 0
    /\ defOut[1].status # 0
    /\ ZeroPrinters
    /\ eres[1] = Ok(<<>>)

\* the copies directive of a built command: None, or Some(value as written)
CopiesDirective(c) ==
    IF platform = "unix"
    THEN LET a == cmd[c].args
             skip == IF opts[c].printer # None THEN 2 ELSE 0
         IN IF Len(a) >= skip + 2 /\ a[skip + 1] = "-n" THEN Some(a[skip + 2])
            ELSE None
    ELSE IF cmd[c].script.kind = "ie_automation"
         THEN Some(ToString(cmd[c].script.loop_bound))
         ELSE None

\* the number of copies a built command asks for
RequestedCopies(c) ==
    IF CopiesDirective(c) = None THEN 1
    ELSE CHOOSE n \in 0..(MaxCopies + 1) : ToString(n) = CopiesDirective(c)[1]

\* C6: for every options.copies and on every pathway the built command or
\* script asks for at least one copy: a value of 1 or less (or none) emits
\* no copies directive, a value n > 1 emits a directive with exactly n.
C6_CopiesAtLeastOne ==
    \A c \in Calls :
        CommandBuilt(c) =>
            LET n == UnwrapOr(opts[c].copies, 1) IN
            /\ RequestedCopies(c) >= 1
            /\ n <= 1 => CopiesDirective(c) = None
            /\ n > 1 => CopiesDirective(c) = Some(ToString(n))

\* C7: job_id is None in every PrintResult whose success is false, also
\* when the failed process printed the "request id is " marker.
C7_NoJobIdOnFailure ==
    \A c \in Calls :
        (result[c] # None /\ result[c][1].tag = "Ok") =>
            (result[c][1].val.success = FALSE => result[c][1].val.job_id = None)

\* C7 witness: lp exited nonzero with a request id on its stdout, and the
\* call has returned a failed result.
C7_Witness ==
    \E c \in Calls :
        /\ Exited(c)
        /\ platform = "unix"
        /\ out[c][1].status # 0
        /\ JobId(out[c][1].stdout) # None
        /\ result[c][1].tag = "Ok"
        /\ result[c][1].val.success = FALSE

MediaValues == {"media=Custom.80x200mm", "media=Custom.58x200mm"}

\* C8: in the lp argument vector, paper_width 80 (or none) gives exactly one
\* media directive, media=Custom.80x200mm; 58 gives exactly one,
\* media=Custom.58x200mm; any other width gives none; and "-o fit-to-page"
\* is always there, after the printer, copies and media arguments and
\* immediately before the file path.
C8_MediaAndFitToPage ==
    \A c \in Calls :
        (platform = "unix" /\ CommandBuilt(c)) =>
            LET a == cmd[c].args
                w == UnwrapOr(opts[c].paper_width, 80)
                n == Len(a)
                head == SubSeq(a, 1, n - 3)
                media == {k \in 1..(Len(head) - 1) :
                             head[k] = "-o" /\ head[k + 1] \in MediaValues}
                front == Len(PrinterArgs(opts[c])) + Len(CopiesArgs(opts[c]))
            IN /\ n >= 3
               /\ a[n] = PathString(platform, tmp[c][1])
               /\ a[n - 2] = "-o" /\ a[n - 1] = "fit-to-page"
               /\ Count(a, "fit-to-page") = 1
               /\ w = 80 => /\ media = {front + 1}
                            /\ head[front + 2] = "media=Custom.80x200mm"
                            /\ Len(head) = front + 2
               /\ w = 58 => /\ media = {front + 1}
                            /\ head[front + 2] = "media=Custom.58x200mm"
                            /\ Len(head) = front + 2
               /\ w \notin {80, 58} => /\ media = {}
                                       /\ Range(a) \cap MediaValues = {}
                                       /\ Len(head) = front

\* C8 witness: an lp command built for a named printer, two copies and
\* 58mm paper.
C8_Witness ==
    \E c \in Calls :
        /\ platform = "unix"
        /\ CommandBuilt(c)
        /\ opts[c].paper_width = Some(58)
        /\ opts[c].printer # None
        /\ opts[c].copies = Some(2)
        /\ Len(cmd[c].args) = 9

\* the default-printer name as the claim reads it: the trimmed text that
\* follows the first colon of the `lpstat -d` output
TextAfterFirstColon(s) ==
    LET at == {k \in 1..Len(s) : s[k] = ":"} IN
    IF at = {} THEN <<>>
    ELSE LET k == CHOOSE i \in at : \A j \in at : i <= j IN
         Trim(SubSeq(s, k + 1, Len(s)))

\* C9: on Unix every output line that begins with "printer " and has at
\* least two whitespace-delimited tokens gives exactly one PrinterInfo, in
\* output order, named by the line's second token, and default if and only
\* if that name equals the trimmed text following the first colon of the
\* default query's output; other lines give no record.
C9_RecordsAndDefault ==
    (epc = "done" /\ platform = "unix" /\ listOut # None) =>
        LET recs == eres[1].val
            lines == SelectSeq(Lines(Lossy(listOut[1].stdout)), IsPrinterLine)
            default == TextAfterFirstColon(Lossy(defOut[1].stdout))
        IN /\ eres[1].tag = "Ok"
           /\ Len(recs) = Len(lines)
           /\ \A k \in 1..Len(lines) :
                 /\ recs[k].name = SplitWhitespace(lines[k])[2]
                 /\ recs[k].is_default <=> (recs[k].name = default)

Stages ==
    {<<>>, <<"create">>, <<"create", "delete">>, <<"create", "write">>,
     <<"create", "write", "delete">>, <<"create", "write", "spawn">>,
     <<"create", "write", "spawn", "exit", "delete">>}

\* C10: within one print_html call the temp file is created, the whole
\* payload written, only then the process spawned with that file's path,
\* and the file deleted only after the process exited: while the subprocess
\* runs the file exists with the full payload, and no subprocess is spawned
\* when creating or writing failed.
C10_StepsOrdered ==
    \A c \in Calls :
        /\ trace[c] \in Stages
        /\ pc[c] = "running" =>
              /\ tmp[c] # None
              /\ CommandFile(platform, cmd[c]) = tmp[c][1]
              /\ fs[tmp[c][1]] # None
              /\ fs[tmp[c][1]][1].content = Payload(platform, html[c], opts[c])
        /\ seen[c] # None =>
              /\ seen[c][1] # None
              /\ seen[c][1][1].content = Payload(platform, html[c], opts[c])
        /\ (Returned(c) /\ result[c][1].tag = "Err"
               /\ result[c][1].msg \in {"Failed to create temp file",
                                        "Failed to write HTML to temp file"})
              => ("spawn" \notin Range(trace[c]) /\ seen[c] = None /\ out[c] = None)

\* C10 witness: a subprocess is running and has read the file of its call.
C10_Witness ==
    \E c \in Calls :
        /\ pc[c] = "running"
        /\ trace[c] = <<"create", "write", "spawn">>
        /\ seen[c] # None
====
